---- MODULE Spec2Model ----
(***************************************************************************)
(* State-machine model of src/components/NeonGame.tsx: the mutable         *)
(* gameState ref, the React state next to it, the window listeners, the    *)
(* requestAnimationFrame callback `loop` and restartGame.                  *)
(*                                                                         *)
(* Numbers.  Every JavaScript number that can hold a fraction (positions,  *)
(* velocities, radii, entity life, camera shake, recoil) is a fixed-point  *)
(* integer with SCALE units to 1.0; products are truncated to a unit       *)
(* (FMul), quotients rounded to the nearest unit (RDiv).  Counters the     *)
(* code only ever changes by whole steps (currHealth, cooldown, score,     *)
(* waveTimer, frameCount) are plain integers.  An angle is kept as the     *)
(* unit vector (cos a, sin a).  Math.random() is an input: a tick reads    *)
(* its k-th call from a tape chosen from Tapes (values in hundredths,      *)
(* 0..99).                                                                 *)
(***************************************************************************)
EXTENDS Integers, Sequences, FiniteSets, TLC

SCALE == 100

\* ---------------------------------------------------------------- bounds
MaxTicks == 4
MaxInputs == 1
MaxRestarts == 1
MaxHeldTicks == 17
MaxScore == 9000
MaxApproachTicks == 75
MaxTriggerTicks == 12
MaxPointerEvents == 3

\* ------------------------------------------------------ program constants
FRICTION == 90
BULLET_SPEED == 18
FIRERATE == 8
BULLET_COLOR == "#ffff00"
ZOMBIE_FAST_COLOR == "#ff0055"
ZOMBIE_TANK_COLOR == "#aa00ff"
BLOOD_COLOR_1 == "#00ff00"
BLOOD_COLOR_2 == "#ff0055"

\* ------------------------------------------------------------ arithmetic
\* a / b for b > 0, rounded to the nearest integer (halves away from zero).
RDiv(a, b) ==
  IF a >= 0 THEN (2 * a + b) \div (2 * b) ELSE -((2 * (-a) + b) \div (2 * b))

\* a / b for b > 0, truncated toward zero.
TDiv(a, b) == IF a >= 0 THEN a \div b ELSE -((-a) \div b)

\* x * y for two fixed-point numbers (truncated, so that a repeated decay
\* such as v * 0.9 reaches 0 instead of sticking at a rounding fixed point).
FMul(x, y) == TDiv(x * y, SCALE)

Max(a, b) == IF a >= b THEN a ELSE b
Min(a, b) == IF a <= b THEN a ELSE b

RECURSIVE SqrtIter(_, _, _)
SqrtIter(n, lo, hi) ==
  IF lo >= hi THEN lo
  ELSE LET mid == (lo + hi + 1) \div 2
       IN IF mid * mid <= n THEN SqrtIter(n, mid, hi) ELSE SqrtIter(n, lo, mid - 1)

\* floor(sqrt(n)); 46340 is the largest root whose square fits 32 bits.
ISqrt(n) == SqrtIter(n, 0, 46340)

Vec(a, b) == [x |-> a, y |-> b]
ZeroVec == Vec(0, 0)

vecAdd(v1, v2) == Vec(v1.x + v2.x, v1.y + v2.y)
vecSub(v1, v2) == Vec(v1.x - v2.x, v1.y - v2.y)
vecMult(v, s) == Vec(FMul(v.x, s), FMul(v.y, s))
vecLen(v) == ISqrt(v.x * v.x + v.y * v.y)
vecNorm(v) ==
  LET len == vecLen(v)
  IN IF len = 0 THEN ZeroVec ELSE Vec(RDiv(v.x * SCALE, len), RDiv(v.y * SCALE, len))

\* (cos a, sin a) for a = Math.atan2(dy, dx); atan2(0, 0) is 0.
Atan2Dir(dy, dx) == IF dx = 0 /\ dy = 0 THEN Vec(SCALE, 0) ELSE vecNorm(Vec(dx, dy))

\* (cos(a + s), sin(a + s)) for the unit vector d of a and a small s given in
\* hundredths of a radian (|s| <= 5): cos s = 1 - s^2/2, sin s = s.
Rotate(d, s) ==
  LET c == SCALE - RDiv(s * s, 2 * SCALE)
  IN Vec(FMul(d.x, c) - FMul(d.y, s), FMul(d.y, c) + FMul(d.x, s))

Cos20 == <<100, 95, 81, 59, 31, 0, -31, -59, -81, -95,
           -100, -95, -81, -59, -31, 0, 31, 59, 81, 95>>
Sin20 == <<0, 31, 59, 81, 95, 100, 95, 81, 59, 31,
           0, -31, -59, -81, -95, -100, -95, -81, -59, -31>>

\* (cos, sin) of r hundredths of a full turn (Math.random() * Math.PI * 2),
\* in steps of a twentieth of a turn.
TurnDir(r) == Vec(Cos20[(r \div 5) + 1], Sin20[(r \div 5) + 1])

\* ------------------------------------------------------------ Math.random
\* The tapes a tick may read its Math.random() values from, in hundredths.
Tapes == {<<50>>, <<99, 30, 90, 5, 60>>}

\* The k-th value (k = 0, 1, ...) a tick reads from its tape.
Random(tape, k) == tape[(k % Len(tape)) + 1]

\* ------------------------------------------------------------------ state
VARIABLES
  gameState,  \* gameState.current
  score,      \* React state: score
  health,     \* React state: health
  gameOver,   \* React state: gameOver
  wave,       \* React state: wave
  canvas,     \* canvas.width / canvas.height (= window.innerWidth / innerHeight)
  mounted,    \* the effect is set up and not cleaned up: listeners registered
  frame,      \* the frame requestAnimationFrame has pending: "held" when
              \* animationFrameId names it, "lost" when it does not, or "none"
  nextId,     \* identity of the next object pushed (the code's id strings)
  ticks,      \* running ticks taken in this run (bounded by MaxTicks)
  inputs,     \* input and resize events taken in this run (bounded by MaxInputs)
  restarts,   \* restarts taken in this run (bounded by MaxRestarts)
  log,        \* what the last step did (history, read by the properties only)
  removed,    \* the enemies the cleanup has taken out of state.entities since
              \* the last restart, by type (history, read by the properties only)
  shotAt      \* state.frameCount of the last tick that pushed a bullet, 0 when
              \* there was none (history, read by the properties only)

vars == <<gameState, score, health, gameOver, wave, canvas, mounted, frame,
          nextId, ticks, inputs, restarts, log, removed, shotAt>>

\* The listener codes the model's keyboard can send.
Codes == {"KeyW", "KeyA", "KeyS", "KeyD", "Space"}

\* Viewport sizes (window.innerWidth x innerHeight) are in pixels.
\* A viewport narrower than twice the margin the player is kept from an edge
\* (an embedding frame may be this small).
SlitSize == Vec(30, 200)

\* The sizes the window is resized to.
Sizes == {Vec(240, 200), SlitSize}

\* The sizes of the window the sessions without input are played in.
QuietSizes == {Vec(200, 200), Vec(240, 200)}

\* Pointer positions (clientX, clientY) the model's mouse can move to.
MousePts == {Vec(100, 200), Vec(0, 100)}

Px(v) == Vec(v.x * SCALE, v.y * SCALE)

IsZombie(type) == type \in {"ZOMBIE_FAST", "ZOMBIE_TANK"}

EmptyLog ==
  [op |-> "init", running |-> FALSE, rendered |-> FALSE, fired |-> 0,
   muzzle |-> <<>>, oob |-> {}, contacts |-> <<>>, hits |-> <<>>,
   kills |-> <<>>, skipped |-> <<>>, expired |-> {}, spawned |-> <<>>,
   died |-> FALSE, trauma |-> 0, born |-> <<>>, knocked |-> <<>>,
   steer |-> <<>>, gap |-> 0]

OpLog(name) == [EmptyLog EXCEPT !.op = name]

\* No enemy has been taken out yet.
NoneRemoved == [fast |-> 0, tank |-> 0]

\* How many objects of the type the array holds marked for deletion.
MarkedOf(ents, type) ==
  Cardinality({k \in DOMAIN ents : ents[k].type = type /\ ents[k].markedForDeletion})

\* The object useRef is given, before the effect runs.
InitialGameState ==
  [player |-> [pos |-> ZeroVec, vel |-> ZeroVec, angle |-> Vec(SCALE, 0),
               cooldown |-> 0, maxHealth |-> 100, currHealth |-> 100, recoil |-> 0],
   entities |-> <<>>,
   particles |-> <<>>,
   keys |-> {},
   mouse |-> [x |-> 0, y |-> 0, down |-> FALSE],
   camera |-> [x |-> 0, y |-> 0, shake |-> 0],
   waveTimer |-> 0,
   score |-> 0,
   isRunning |-> TRUE,
   frameCount |-> 0]

\* handleResize: the canvas takes the window's size; the player is centred
\* while no tick has run yet.
ResizedState(gs, size) ==
  IF gs.frameCount = 0
  THEN [gs EXCEPT !.player.pos = Vec(RDiv(size.x, 2), RDiv(size.y, 2))]
  ELSE gs

\* The state once the effect has run: handleResize() was called once.
MountedState(size) == ResizedState(InitialGameState, Px(size))

\* ------------------------------------------------------------- the tick
\* A tick works on w = [gs, health, score, nextId, rc, log]: gameState.current,
\* the React state it sets, the next object identity, the number of
\* Math.random() calls made so far in this tick, and the tick's log.

\* addTrauma(amount)
addTrauma(w, amount) ==
  [w EXCEPT !.gs.camera.shake = Min(w.gs.camera.shake + amount, 25 * SCALE)]

\* The object createParticle pushes, from the values it has drawn.
Particle(id, pos, dir, spd, radius, color, life, maxLife, angle) ==
  [id |-> id,
   type |-> "PARTICLE",
   pos |-> pos,
   vel |-> Vec(FMul(dir.x, spd), FMul(dir.y, spd)),
   radius |-> radius,
   color |-> color,
   life |-> life,
   maxLife |-> maxLife,
   angle |-> angle,
   markedForDeletion |-> FALSE]

\* createParticle(pos, count, color, speed, lifeBase); the calls of
\* Math.random() per particle, in order: angle, spd, id, radius, life, angle.
RECURSIVE createParticle(_, _, _, _, _, _, _)
createParticle(w, tape, pos, count, color, speed, lifeBase) ==
  IF count = 0 THEN w
  ELSE createParticle(
         [w EXCEPT !.gs.particles =
                     Append(@, Particle(w.nextId, pos, TurnDir(Random(tape, w.rc)),
                                        FMul(Random(tape, w.rc + 1), speed),
                                        FMul(Random(tape, w.rc + 3), 3 * SCALE) + SCALE,
                                        color,
                                        lifeBase + FMul(Random(tape, w.rc + 4), 30 * SCALE),
                                        lifeBase + 30 * SCALE,
                                        TurnDir(Random(tape, w.rc + 5)))),
                   !.nextId = @ + 1,
                   !.rc = @ + 6],
         tape, pos, count - 1, color, speed, lifeBase)

\* MovePlayer with the far margin at 10 instead of 20.
MovePlayer_ThinMargin(w, cv, vel) ==
  [w EXCEPT !.gs.player.vel = vel,
            !.gs.player.pos = Vec(Max(20 * SCALE, Min(cv.x - 10 * SCALE, @.x + vel.x)),
                                  Max(20 * SCALE, Min(cv.y - 10 * SCALE, @.y + vel.y)))]

\* Apply the velocity, then Bounds Checking.
MovePlayer(w, cv, vel) ==
  [w EXCEPT !.gs.player.vel = vel,
            !.gs.player.pos = Vec(Max(20 * SCALE, Min(cv.x - 20 * SCALE, @.x + vel.x)),
                                  Max(20 * SCALE, Min(cv.y - 20 * SCALE, @.y + vel.y)))]

PlayerMovement(w, cv) ==
  LET k == w.gs.keys
      move == Vec((IF "KeyA" \in k THEN -SCALE ELSE 0) + (IF "KeyD" \in k THEN SCALE ELSE 0),
                  (IF "KeyW" \in k THEN -SCALE ELSE 0) + (IF "KeyS" \in k THEN SCALE ELSE 0))
      moveDir == vecNorm(move)
  IN MovePlayer(w, cv, vecMult(vecAdd(w.gs.player.vel, vecMult(moveDir, 80)), FRICTION))

\* Player Aim
PlayerAim(w) ==
  LET dx == w.gs.mouse.x - w.gs.player.pos.x
      dy == w.gs.mouse.y - w.gs.player.pos.y
  IN [w EXCEPT !.gs.player.angle = Atan2Dir(dy, dx)]

\* Create Bullet and Muzzle Flash Particles, for the velocity drawn.
CreateBullet(w, tape, bulletVel, muzzlePos) ==
  createParticle(
    [w EXCEPT !.gs.entities =
                Append(@, [id |-> w.nextId,
                           type |-> "BULLET",
                           pos |-> muzzlePos,
                           vel |-> bulletVel,
                           radius |-> 3 * SCALE,
                           color |-> BULLET_COLOR,
                           life |-> 1 * SCALE,
                           maxLife |-> 1 * SCALE,
                           angle |-> w.gs.player.angle,
                           markedForDeletion |-> FALSE]),
              !.nextId = @ + 1,
              !.rc = @ + 2,
              !.log.fired = @ + 1,
              !.log.gap = IF w.shotAt = 0 THEN 0 ELSE w.gs.frameCount - w.shotAt,
              !.shotAt = w.gs.frameCount,
              !.log.muzzle = Append(@, [id |-> w.nextId, pos |-> muzzlePos])],
    tape, muzzlePos, 3, "#ffffaa", 2 * SCALE, 10 * SCALE)

Fire(w, tape, bulletVel) ==
  CreateBullet(w, tape, bulletVel,
               vecAdd(w.gs.player.pos, vecMult(vecNorm(bulletVel), 25 * SCALE)))

\* Shooting with the cooldown tested before it is decremented.
Shooting_TestedFirst(w, tape) ==
  LET cd == IF w.gs.player.cooldown > 0 THEN w.gs.player.cooldown - 1
            ELSE w.gs.player.cooldown
      w0 == [w EXCEPT !.gs.player.cooldown = cd]
      w1 ==
        IF w0.gs.mouse.down /\ w.gs.player.cooldown <= 0
        THEN Fire(addTrauma([w0 EXCEPT !.gs.player.cooldown = FIRERATE,
                                       !.gs.player.recoil = 6 * SCALE], 4 * SCALE),
                  tape,
                  vecMult(Rotate(w0.gs.player.angle, RDiv(Random(tape, w0.rc) - 50, 10)),
                          BULLET_SPEED * SCALE))
        ELSE w0
  IN IF w1.gs.player.recoil > 0
     THEN [w1 EXCEPT !.gs.player.recoil = FMul(@, 80)]
     ELSE w1

\* Shooting: the cooldown, the bullet, the muzzle flash, the recoil decay.
Shooting(w, tape) ==
  LET cd == IF w.gs.player.cooldown > 0 THEN w.gs.player.cooldown - 1
            ELSE w.gs.player.cooldown
      w0 == [w EXCEPT !.gs.player.cooldown = cd]
      w1 ==
        IF w0.gs.mouse.down /\ cd <= 0
        THEN Fire(addTrauma([w0 EXCEPT !.gs.player.cooldown = FIRERATE,
                                       !.gs.player.recoil = 6 * SCALE], 4 * SCALE),
                  tape,
                  vecMult(Rotate(w0.gs.player.angle, RDiv(Random(tape, w0.rc) - 50, 10)),
                          BULLET_SPEED * SCALE))
        ELSE w0
  IN IF w1.gs.player.recoil > 0
     THEN [w1 EXCEPT !.gs.player.recoil = FMul(@, 80)]
     ELSE w1

\* SpawnRate without the Math.max(20, ...) around it.
SpawnRate_NoFloor(sc) == 100 - ((sc \div 500) * 5)

\* Math.max(20, 100 - (Math.floor(state.score / 500) * 5))
SpawnRate(sc) == Max(20, 100 - ((sc \div 500) * 5))

\* Spawning Logic (Wave System)
Spawning(w, tape, cv) ==
  LET w0 == [w EXCEPT !.gs.waveTimer = @ + 1]
      spawnRate == SpawnRate(w0.gs.score)
  IN IF w0.gs.waveTimer % spawnRate = 0
     THEN
       LET side == (Random(tape, w0.rc) * 4) \div SCALE
           along == Random(tape, w0.rc + 1)
           spawnPos ==
             IF side = 0 THEN Vec(FMul(along, cv.x), -50 * SCALE)
             ELSE IF side = 1 THEN Vec(cv.x + 50 * SCALE, FMul(along, cv.y))
             ELSE IF side = 2 THEN Vec(FMul(along, cv.x), cv.y + 50 * SCALE)
             ELSE Vec(-50 * SCALE, FMul(along, cv.y))
           isTank == Random(tape, w0.rc + 2) > 85
           zombie == [id |-> w0.nextId,
                      type |-> IF isTank THEN "ZOMBIE_TANK" ELSE "ZOMBIE_FAST",
                      pos |-> spawnPos,
                      vel |-> ZeroVec,
                      radius |-> IF isTank THEN 25 * SCALE ELSE 12 * SCALE,
                      color |-> IF isTank THEN ZOMBIE_TANK_COLOR ELSE ZOMBIE_FAST_COLOR,
                      life |-> IF isTank THEN 100 * SCALE ELSE 30 * SCALE,
                      maxLife |-> IF isTank THEN 100 * SCALE ELSE 30 * SCALE,
                      angle |-> Vec(SCALE, 0),
                      markedForDeletion |-> FALSE]
       IN [w0 EXCEPT !.gs.entities = Append(@, zombie),
                     !.nextId = @ + 1,
                     !.rc = @ + 4,
                     !.log.spawned = Append(@, w0.nextId),
                     !.log.born = Append(@, [id |-> w0.nextId, pos |-> spawnPos])]
     ELSE w0

\* The separation an enemy at index i gathers, scanning others from index j on:
\* the inner forEach of the zombie update, over the array as it is at that moment.
RECURSIVE Separation(_, _, _, _)
Separation(ents, i, j, acc) ==
  IF j > Len(ents) THEN acc
  ELSE
    LET ent == ents[i]
        other == ents[j]
        diff == vecSub(ent.pos, other.pos)
    IN IF j # i /\ IsZombie(other.type)
          /\ vecLen(diff) < ent.radius + other.radius + 10 * SCALE
       THEN Separation(ents, i, j + 1, vecAdd(acc, vecNorm(diff)))
       ELSE Separation(ents, i, j + 1, acc)

\* The bullet branch of the forEach body.
UpdateBullet(w, i, cv) ==
  LET ent == w.gs.entities[i]
      pos == vecAdd(ent.pos, ent.vel)
      out == pos.x < 0 \/ pos.x > cv.x \/ pos.y < 0 \/ pos.y > cv.y
  IN [w EXCEPT !.gs.entities[i].pos = pos,
               !.gs.entities[i].markedForDeletion = IF out THEN TRUE ELSE @,
               !.log.oob = IF out THEN @ \cup {ent.id} ELSE @]

\* PlayerCollision with the death test written as currHealth < 0.
PlayerCollision_StrictTest(w, i, pos, dirToPlayer) ==
  IF vecLen(vecSub(pos, w.gs.player.pos)) < w.gs.entities[i].radius + 15 * SCALE
  THEN
    LET back == vecMult(dirToPlayer, -5 * SCALE)
        hp == w.gs.player.currHealth - 1
    IN [addTrauma(w, 10 * SCALE) EXCEPT
          !.gs.player.currHealth = hp,
          !.health = hp,
          !.gs.entities[i].vel = back,
          !.gs.entities[i].pos = vecAdd(pos, back),
          !.gs.isRunning = IF hp < 0 THEN FALSE ELSE @,
          !.log.contacts = Append(@, w.gs.entities[i].id),
          !.log.died = IF hp < 0 THEN TRUE ELSE @]
  ELSE w

\* Collision with Player, for the enemy at index i that has moved to pos.
PlayerCollision(w, i, pos, dirToPlayer) ==
  IF vecLen(vecSub(pos, w.gs.player.pos)) < w.gs.entities[i].radius + 15 * SCALE
  THEN
    LET back == vecMult(dirToPlayer, -5 * SCALE)
        hp == w.gs.player.currHealth - 1
    IN [addTrauma(w, 10 * SCALE) EXCEPT
          !.gs.player.currHealth = hp,
          !.health = hp,
          !.gs.entities[i].vel = back,
          !.gs.entities[i].pos = vecAdd(pos, back),
          !.gs.isRunning = IF hp <= 0 THEN FALSE ELSE @,
          !.log.contacts = Append(@, w.gs.entities[i].id),
          !.log.knocked = Append(@, [id |-> w.gs.entities[i].id, from |-> pos]),
          !.log.died = IF hp <= 0 THEN TRUE ELSE @]
  ELSE w

\* MoveZombie with the velocity set but not added to the position.
MoveZombie_VelocityOnly(w, i, vel, dirToPlayer) ==
  PlayerCollision([w EXCEPT !.gs.entities[i].vel = vel,
                            !.gs.entities[i].angle = Atan2Dir(dirToPlayer.y, dirToPlayer.x)],
                  i, w.gs.entities[i].pos, dirToPlayer)

\* Apply velocity, then the collision with the player.
MoveZombie(w, i, vel, dirToPlayer) ==
  PlayerCollision([w EXCEPT !.gs.entities[i].vel = vel,
                            !.gs.entities[i].pos = vecAdd(@, vel),
                            !.gs.entities[i].angle = Atan2Dir(dirToPlayer.y, dirToPlayer.x)],
                  i, vecAdd(w.gs.entities[i].pos, vel), dirToPlayer)

\* Chase Player: the velocity from the direction to the player and the separation.
ChasePlayer(w, i, separation, dirToPlayer) ==
  LET speed == IF w.gs.entities[i].type = "ZOMBIE_FAST"
               THEN 250 + RDiv(w.gs.score * SCALE, 5000)
               ELSE 120
  IN MoveZombie(w, i,
                vecAdd(vecMult(dirToPlayer, FMul(speed, 80)), vecMult(separation, 50)),
                dirToPlayer)

\* The array with every enemy that was pushed back in this tick put where its
\* movement had taken it, before the push.
Unknocked(ents, knocked) ==
  [j \in 1..Len(ents) |->
     IF \E k \in 1..Len(knocked) : knocked[k].id = ents[j].id
     THEN [ents[j] EXCEPT !.pos =
             knocked[CHOOSE k \in 1..Len(knocked) : knocked[k].id = ents[j].id].from]
     ELSE ents[j]]

\* The zombie branch of the forEach body: separation, chase, move, and the
\* collision with the player.  (The log keeps the separation gathered, and the
\* one the array without this tick's pushes would have given.)
UpdateZombie(w, i) ==
  LET separation == Separation(w.gs.entities, i, 1, ZeroVec)
      steered == [id |-> w.gs.entities[i].id,
                  separation |-> separation,
                  unknocked |-> Separation(Unknocked(w.gs.entities, w.log.knocked),
                                           i, 1, ZeroVec)]
  IN ChasePlayer([w EXCEPT !.log.steer = Append(@, steered)], i, separation,
                 vecNorm(vecSub(w.gs.player.pos, w.gs.entities[i].pos)))

\* state.entities.forEach(ent => ...), from index i on.
RECURSIVE UpdateEntities(_, _, _)
UpdateEntities(w, i, cv) ==
  IF i > Len(w.gs.entities) THEN w
  ELSE
    LET ent == w.gs.entities[i]
    IN IF ent.type = "BULLET" THEN UpdateEntities(UpdateBullet(w, i, cv), i + 1, cv)
       ELSE IF IsZombie(ent.type) THEN UpdateEntities(UpdateZombie(w, i), i + 1, cv)
       ELSE UpdateEntities(w, i + 1, cv)

\* The ids of the live enemies a bullet overlaps, in enumeration order.
Overlapping(ents, bullet) ==
  LET sel == SelectSeq(ents, LAMBDA e:
               /\ IsZombie(e.type)
               /\ ~e.markedForDeletion
               /\ vecLen(vecSub(bullet.pos, e.pos)) < e.radius + bullet.radius)
  IN [k \in 1..Len(sel) |-> sel[k].id]

\* The ids of the live bullets that overlap an enemy, in enumeration order.
Reaching(ents, enemy) ==
  LET sel == SelectSeq(ents, LAMBDA e:
               /\ e.type = "BULLET"
               /\ ~e.markedForDeletion
               /\ vecLen(vecSub(e.pos, enemy.pos)) < enemy.radius + e.radius)
  IN [k \in 1..Len(sel) |-> sel[k].id]

\* Kill with 10 scored for every enemy, whatever its type.
Kill_FlatReward(w, tape, j, pos) ==
  LET enemy == w.gs.entities[j]
  IN createParticle(
       createParticle(
         [addTrauma(w, 8 * SCALE) EXCEPT
            !.gs.entities[j].markedForDeletion = TRUE,
            !.gs.score = @ + 10,
            !.score = w.gs.score + 10,
            !.log.kills = Append(@, [enemy |-> enemy.id, type |-> enemy.type,
                                     bullets |-> Reaching(w.gs.entities, enemy)])],
         tape, pos, 15, BLOOD_COLOR_1, 5 * SCALE, 40 * SCALE),
       tape, pos, 10, BLOOD_COLOR_2, 4 * SCALE, 30 * SCALE)

\* if (enemy.life <= 0): the kill of enemy j, at pos.
Kill(w, tape, j, pos) ==
  LET enemy == w.gs.entities[j]
      reward == IF enemy.type = "ZOMBIE_TANK" THEN 50 ELSE 10
  IN createParticle(
       createParticle(
         [addTrauma(w, 8 * SCALE) EXCEPT
            !.gs.entities[j].markedForDeletion = TRUE,
            !.gs.score = @ + reward,
            !.score = w.gs.score + reward,
            !.log.kills = Append(@, [enemy |-> enemy.id, type |-> enemy.type,
                                     bullets |-> Reaching(w.gs.entities, enemy)])],
         tape, pos, 15, BLOOD_COLOR_1, 5 * SCALE, 40 * SCALE),
       tape, pos, 10, BLOOD_COLOR_2, 4 * SCALE, 30 * SCALE)

\* Hit!: bullet i is spent, enemy j is damaged and knocked back to pos.
Damage(w, tape, i, j, pos, life) ==
  LET w1 == createParticle(
              [w EXCEPT !.gs.entities[i].markedForDeletion = TRUE,
                        !.gs.entities[j].life = life,
                        !.gs.entities[j].pos = pos,
                        !.log.hits =
                          Append(@, [bullet |-> w.gs.entities[i].id,
                                     enemy |-> w.gs.entities[j].id,
                                     overlapping |-> Overlapping(w.gs.entities, w.gs.entities[i])])],
              tape, pos, 5, w.gs.entities[j].color, 3 * SCALE, 10 * SCALE)
  IN IF life <= 0 THEN Kill(w1, tape, j, pos) ELSE w1

\* The hit of bullet i on enemy j: damage, knockback, sparks, and the kill.
Hit(w, tape, i, j) ==
  Damage(w, tape, i, j,
         vecAdd(w.gs.entities[j].pos, vecMult(vecNorm(w.gs.entities[i].vel), 4 * SCALE)),
         w.gs.entities[j].life - 25 * SCALE)

\* ScanEnemies without the break after a hit.
RECURSIVE ScanEnemies_NoBreak(_, _, _, _)
ScanEnemies_NoBreak(w, tape, i, j) ==
  IF j > Len(w.gs.entities) THEN w
  ELSE
    LET bullet == w.gs.entities[i]
        enemy == w.gs.entities[j]
    IN IF ~IsZombie(enemy.type) \/ enemy.markedForDeletion
       THEN ScanEnemies_NoBreak(w, tape, i, j + 1)
       ELSE IF vecLen(vecSub(bullet.pos, enemy.pos)) < enemy.radius + bullet.radius
       THEN ScanEnemies_NoBreak(Hit(w, tape, i, j), tape, i, j + 1)
       ELSE ScanEnemies_NoBreak(w, tape, i, j + 1)

\* ScanEnemies without the test that skips an enemy already marked.
RECURSIVE ScanEnemies_MarkedScanned(_, _, _, _)
ScanEnemies_MarkedScanned(w, tape, i, j) ==
  IF j > Len(w.gs.entities) THEN w
  ELSE
    LET bullet == w.gs.entities[i]
        enemy == w.gs.entities[j]
    IN IF ~IsZombie(enemy.type)
       THEN ScanEnemies_MarkedScanned(w, tape, i, j + 1)
       ELSE IF vecLen(vecSub(bullet.pos, enemy.pos)) < enemy.radius + bullet.radius
       THEN Hit(w, tape, i, j)
       ELSE ScanEnemies_MarkedScanned(w, tape, i, j + 1)

\* The inner for-of: bullet i scans the enemies from index j on and stops at
\* its first hit.
RECURSIVE ScanEnemies(_, _, _, _)
ScanEnemies(w, tape, i, j) ==
  IF j > Len(w.gs.entities) THEN w
  ELSE
    LET bullet == w.gs.entities[i]
        enemy == w.gs.entities[j]
    IN IF ~IsZombie(enemy.type) \/ enemy.markedForDeletion
       THEN ScanEnemies(w, tape, i, j + 1)
       ELSE IF vecLen(vecSub(bullet.pos, enemy.pos)) < enemy.radius + bullet.radius
       THEN Hit(w, tape, i, j)
       ELSE ScanEnemies(w, tape, i, j + 1)

\* BulletsVsZombies without the test that skips a bullet already marked.
RECURSIVE BulletsVsZombies_MarkedScanned(_, _, _)
BulletsVsZombies_MarkedScanned(w, tape, i) ==
  IF i > Len(w.gs.entities) THEN w
  ELSE
    LET bullet == w.gs.entities[i]
    IN IF bullet.type # "BULLET"
       THEN BulletsVsZombies_MarkedScanned(w, tape, i + 1)
       ELSE BulletsVsZombies_MarkedScanned(ScanEnemies(w, tape, i, 1), tape, i + 1)

\* Collision Detection: Bullets vs Zombies, the outer for-of from index i on.
RECURSIVE BulletsVsZombies(_, _, _)
BulletsVsZombies(w, tape, i) ==
  IF i > Len(w.gs.entities) THEN w
  ELSE
    LET bullet == w.gs.entities[i]
    IN IF bullet.type # "BULLET"
       THEN BulletsVsZombies(w, tape, i + 1)
       ELSE IF bullet.markedForDeletion
       THEN BulletsVsZombies(
              [w EXCEPT !.log.skipped =
                          Append(@, [bullet |-> bullet.id,
                                     overlapping |-> Overlapping(w.gs.entities, bullet)])],
              tape, i + 1)
       ELSE BulletsVsZombies(ScanEnemies(w, tape, i, 1), tape, i + 1)

\* Update Particles: one particle of the forEach.
\* UpdateParticle with the test for the end of the life written as life < 0.
UpdateParticle_StrictTest(p) ==
  LET life == p.life - 1 * SCALE
  IN [p EXCEPT !.pos = vecAdd(p.pos, p.vel),
               !.vel = vecMult(p.vel, 92),
               !.life = life,
               !.markedForDeletion = IF life < 0 THEN TRUE ELSE @]

\* Update Particles, for one particle.
UpdateParticle(p) ==
  LET life == p.life - 1 * SCALE
  IN [p EXCEPT !.pos = vecAdd(p.pos, p.vel),
               !.vel = vecMult(p.vel, 92),
               !.life = life,
               !.markedForDeletion = IF life <= 0 THEN TRUE ELSE @]

UpdateParticles(w) ==
  LET ps == [k \in 1..Len(w.gs.particles) |-> UpdateParticle(w.gs.particles[k])]
  IN [w EXCEPT !.gs.particles = ps,
               !.log.expired = {ps[k].id : k \in {n \in 1..Len(ps) : ps[n].markedForDeletion}}]

\* Cleanup that is skipped in the tick that ends the game.
Cleanup_SkippedOnDeath(w) ==
  IF w.gs.isRunning
  THEN [w EXCEPT !.gs.entities = SelectSeq(@, LAMBDA e: ~e.markedForDeletion),
                 !.gs.particles = SelectSeq(@, LAMBDA e: ~e.markedForDeletion)]
  ELSE w

\* Cleanup: the two filters.  (The enemies filtered out are counted.)
Cleanup(w) ==
  [w EXCEPT !.gs.entities = SelectSeq(@, LAMBDA e: ~e.markedForDeletion),
            !.gs.particles = SelectSeq(@, LAMBDA e: ~e.markedForDeletion),
            !.removed = [fast |-> @.fast + MarkedOf(w.gs.entities, "ZOMBIE_FAST"),
                         tank |-> @.tank + MarkedOf(w.gs.entities, "ZOMBIE_TANK")]]

\* CameraShake without the snap to zero.
CameraShake_NoSnap(w) ==
  IF w.gs.camera.shake > 0
  THEN [w EXCEPT !.gs.camera.shake = FMul(w.gs.camera.shake, 90),
                 !.log.trauma = w.gs.camera.shake]
  ELSE w

\* Camera Shake Calculation: the decay and the snap to zero.  (The log keeps
\* the shake the frame was drawn with.)
CameraShake(w) ==
  IF w.gs.camera.shake > 0
  THEN LET decayed == FMul(w.gs.camera.shake, 90)
       IN [w EXCEPT !.gs.camera.shake = IF decayed < 50 THEN 0 ELSE decayed,
                    !.log.trauma = w.gs.camera.shake]
  ELSE w

\* 2. DRAW: the canvas is repainted from the state.
Draw(w) == [w EXCEPT !.log.rendered = TRUE]

\* The body of loop past the isRunning guard: 1. UPDATE, then 2. DRAW.
Tick(w, tape, cv) ==
  LET a == [w EXCEPT !.gs.frameCount = @ + 1]
      b == PlayerAim(PlayerMovement(a, cv))
      c == Spawning(Shooting(b, tape), tape, cv)
      d == BulletsVsZombies(UpdateEntities(c, 1, cv), tape, 1)
      e == Cleanup(UpdateParticles(d))
  IN Draw(CameraShake(e))

\* The working record of a tick that starts in the current state.
Work(gs, h, sc, id) ==
  [gs |-> gs, health |-> h, score |-> sc, nextId |-> id, rc |-> 0,
   log |-> [OpLog("loop") EXCEPT !.running = TRUE],
   removed |-> NoneRemoved,
   shotAt |-> 0]

\* ---------------------------------------------------------------- scripts
\* A session up to a point: n frames of loop with the input held fixed, each
\* frame reading its Math.random() values from the same tape.  (Halving keeps
\* the evaluation shallow.)
RECURSIVE RunTicks(_, _, _, _)
RunTicks(w, n, tape, cv) ==
  IF n = 0 \/ ~w.gs.isRunning THEN w
  ELSE IF n = 1
  THEN Tick([w EXCEPT !.rc = 0, !.log = [OpLog("loop") EXCEPT !.running = TRUE]], tape, cv)
  ELSE RunTicks(RunTicks(w, n \div 2, tape, cv), n - (n \div 2), tape, cv)

\* One stretch of a script: the keys held, the pointer, the frames, the tape.
Seg(n, keys, mouse, down, tape) ==
  [n |-> n, keys |-> keys, mouse |-> mouse, down |-> down, tape |-> tape]

\* The input events that lead into each stretch, then its frames.
RECURSIVE RunScript(_, _, _)
RunScript(w, script, cv) ==
  IF script = <<>> THEN w
  ELSE
    LET seg == Head(script)
        w1 == [w EXCEPT !.gs.keys = seg.keys,
                        !.gs.mouse = [x |-> seg.mouse.x * SCALE, y |-> seg.mouse.y * SCALE,
                                      down |-> seg.down]]
    IN RunScript(RunTicks(w1, seg.n, seg.tape, cv), Tail(script), cv)

\* ---------------------------------------------------------------- actions
\* LoopGameOver with the handle of the frame it requests not stored.
LoopGameOver_HandleDropped ==
  /\ frame # "none"
  /\ ~gameState.isRunning
  /\ frame' = "lost"
  /\ gameOver' = IF gameState.player.currHealth <= 0 THEN TRUE ELSE gameOver
  /\ log' = [OpLog("loop") EXCEPT !.running = FALSE]
  /\ UNCHANGED <<gameState, score, health, wave, canvas, mounted, removed, shotAt, nextId,
                 ticks, inputs, restarts>>

\* LoopGameOver with state.frameCount++ moved above the isRunning guard.
LoopGameOver_CountsFrame ==
  /\ frame # "none"
  /\ ~gameState.isRunning
  /\ frame' = "held"
  /\ gameState' = [gameState EXCEPT !.frameCount = (@ + 1) % 1000]
  /\ gameOver' = IF gameState.player.currHealth <= 0 THEN TRUE ELSE gameOver
  /\ log' = [OpLog("loop") EXCEPT !.running = FALSE]
  /\ UNCHANGED <<score, health, wave, canvas, mounted, removed, shotAt, nextId,
                 ticks, inputs, restarts>>

\* loop, entered with isRunning false: the frame only reschedules itself
\* (animationFrameId = requestAnimationFrame(loop)).
\* The closure's gameOver is the value at mount (false), so setGameOver(true)
\* is called whenever currHealth <= 0.
LoopGameOver ==
  /\ frame # "none"
  /\ ~gameState.isRunning
  /\ frame' = "held"
  /\ gameOver' = IF gameState.player.currHealth <= 0 THEN TRUE ELSE gameOver
  /\ log' = [OpLog("loop") EXCEPT !.running = FALSE]
  /\ UNCHANGED <<gameState, score, health, wave, canvas, mounted, removed, shotAt, nextId,
                 ticks, inputs, restarts>>

\* loop, entered with isRunning true: one tick (of at most bound in a run).
RunningTick(bound) ==
  /\ frame # "none"
  /\ gameState.isRunning
  /\ frame' = "held"
  /\ ticks < bound
  /\ \E tape \in Tapes :
       LET w == Tick([Work(gameState, health, score, nextId) EXCEPT !.removed = removed,
                                                                   !.shotAt = shotAt],
                     tape, canvas)
       IN /\ removed' = w.removed
          /\ shotAt' = w.shotAt
          /\ gameState' = w.gs
          /\ health' = w.health
          /\ score' = w.score
          /\ nextId' = w.nextId
          /\ log' = w.log
  /\ ticks' = ticks + 1
  /\ UNCHANGED <<gameOver, wave, canvas, mounted, inputs, restarts>>

LoopRunning == RunningTick(MaxTicks)

Loop == LoopGameOver \/ LoopRunning

\* An input event whose handler leaves gameState as gs (one of at most bound
\* in a run); an event that changes nothing is a stuttering step.
InputWithin(bound, name, gs) ==
  /\ mounted
  /\ inputs < bound
  /\ gs # gameState
  /\ gameState' = gs
  /\ inputs' = inputs + 1
  /\ log' = OpLog(name)
  /\ UNCHANGED <<score, health, gameOver, wave, canvas, mounted, frame, removed, shotAt, nextId, ticks, restarts>>

Input(name, gs) == InputWithin(MaxInputs, name, gs)

handleKeyDown == \E c \in Codes : Input("keydown", [gameState EXCEPT !.keys = @ \cup {c}])
handleKeyUp == \E c \in Codes : Input("keyup", [gameState EXCEPT !.keys = @ \ {c}])
handleMouseMove ==
  \E p \in MousePts :
    Input("mousemove", [gameState EXCEPT !.mouse.x = p.x * SCALE, !.mouse.y = p.y * SCALE])
handleMouseDown == Input("mousedown", [gameState EXCEPT !.mouse.down = TRUE])
handleMouseUp == Input("mouseup", [gameState EXCEPT !.mouse.down = FALSE])

\* The window is resized to another size.
handleResize ==
  /\ mounted
  /\ inputs < MaxInputs
  /\ \E size \in Sizes :
       /\ Px(size) # canvas
       /\ canvas' = Px(size)
       /\ gameState' = ResizedState(gameState, Px(size))
  /\ inputs' = inputs + 1
  /\ log' = OpLog("resize")
  /\ UNCHANGED <<score, health, gameOver, wave, mounted, frame, removed, shotAt, nextId, ticks, restarts>>

\* RestartedState with the cooldown of the gun reset as well.
RestartedState_CooldownReset(gs, cv) ==
  [gs EXCEPT !.player.pos = Vec(RDiv(cv.x, 2), RDiv(cv.y, 2)),
             !.player.currHealth = 100,
             !.player.cooldown = 0,
             !.entities = <<>>,
             !.particles = <<>>,
             !.score = 0,
             !.waveTimer = 0,
             !.isRunning = TRUE]

\* RestartedState without the reset of the score.
RestartedState_ScoreKept(gs, cv) ==
  [gs EXCEPT !.player.pos = Vec(RDiv(cv.x, 2), RDiv(cv.y, 2)),
             !.player.currHealth = 100,
             !.entities = <<>>,
             !.particles = <<>>,
             !.waveTimer = 0,
             !.isRunning = TRUE]

\* What restartGame assigns in gameState.current.
RestartedState(gs, cv) ==
  [gs EXCEPT !.player.pos = Vec(RDiv(cv.x, 2), RDiv(cv.y, 2)),
             !.player.currHealth = 100,
             !.entities = <<>>,
             !.particles = <<>>,
             !.score = 0,
             !.waveTimer = 0,
             !.isRunning = TRUE]

\* restartGame: the onClick of the button the game-over screen renders.
restartGame ==
  /\ mounted
  /\ gameOver
  /\ restarts < MaxRestarts
  /\ gameState' = RestartedState(gameState, canvas)
  /\ score' = 0
  /\ health' = 100
  /\ gameOver' = FALSE
  /\ wave' = 1
  /\ restarts' = restarts + 1
  /\ removed' = NoneRemoved
  /\ log' = OpLog("restart")
  /\ UNCHANGED <<canvas, mounted, frame, nextId, ticks, inputs, shotAt>>

\* The effect's cleanup: the listeners are removed, the pending frame cancelled.
Unmount ==
  /\ mounted
  /\ mounted' = FALSE
  /\ frame' = IF frame = "held" THEN "none" ELSE frame
  /\ log' = OpLog("unmount")
  /\ UNCHANGED <<gameState, score, health, gameOver, wave, canvas, nextId,
                 ticks, inputs, restarts, removed, shotAt>>

\* ---------------------------------------------------------- specification
StartSize == Vec(200, 200)

\* Pointer positions of the scripts: straight below and straight left of the
\* centre of the start viewport.
Below == Vec(100, 200)
LeftOf == Vec(0, 100)

\* Tapes of the scripts, for the frame of a spawn: a tank at the bottom edge,
\* a fast enemy at the left edge, a tank at the left edge, a fast enemy at
\* the right edge.
TankTape == <<50, 50, 99, 50>>
LeftTape == <<99, 50, 0, 0>>
TankLeftTape == <<99, 50, 99, 50>>
RightTape == <<30, 50, 0, 0>>

\* The session right after mount in a window of the given size.
Mounted(size) == Work(MountedState(size), 100, 0, 1)

Fresh == Mounted(StartSize)

\* A session in which the player never moves: a tank (frame 100) and a fast
\* enemy (frame 200) arrive from below, a fast enemy (frame 300) from the
\* left.  From frame tS the pointer is held down: three shots downwards
\* (the tank is left with 25) and one to the left; the session is taken at
\* frame tS + 31, the pointer back below, the cooldown at 1 and the space
\* bar held.
Siege(tS) ==
  RunScript(Fresh,
            <<Seg(199, {}, Below, FALSE, TankTape),
              Seg(100, {}, Below, FALSE, <<50>>),
              Seg(tS - 300, {}, Below, FALSE, LeftTape),
              Seg(24, {}, Below, TRUE, <<50>>),
              Seg(8, {}, LeftOf, TRUE, <<50>>),
              Seg(0, {"Space"}, Below, TRUE, <<50>>)>>,
            Px(StartSize))

\* The frames from which the pointer is held down in the sieges a run may
\* start from: they leave the player with 2 and with 1 health.
ShootFrom == {361, 362}

\* A wide window.
WideSize == Vec(400, 200)

\* A session in a wide window: the player walks to the right wall (KeyD kept
\* down) and aims left along the middle line, on which a tank arrives from
\* the left (frame 100); two fast enemies arrive from the right (frames 200
\* and 300).  From frame tS the pointer is held down; the session is taken
\* n frames later.
Leap(tS, n) ==
  RunScript(Mounted(WideSize),
            <<Seg(99, {"KeyD"}, LeftOf, FALSE, <<50>>),
              Seg(1, {"KeyD"}, LeftOf, FALSE, TankLeftTape),
              Seg(99, {"KeyD"}, LeftOf, FALSE, <<50>>),
              Seg(1, {"KeyD"}, LeftOf, FALSE, RightTape),
              Seg(99, {"KeyD"}, LeftOf, FALSE, <<50>>),
              Seg(1, {"KeyD"}, LeftOf, FALSE, RightTape),
              Seg(tS - 300, {"KeyD"}, LeftOf, FALSE, <<50>>),
              Seg(n, {"KeyD"}, LeftOf, TRUE, <<50>>)>>,
            Px(WideSize))

\* The session above with the pointer held from frame 305, taken at frame
\* 337: three shots have hit the tank, the fourth is one frame from it and
\* the cooldown is at 1.
LeapStart == Leap(305, 32)

\* A session in which a fast enemy has just come in at the bottom edge
\* (frame 100) and the pointer, straight below the player, goes down after
\* frame n; the session is taken two frames later, the bullet on its way.
Edge(n) ==
  RunScript(Fresh,
            <<Seg(n, {}, Below, FALSE, <<50>>),
              Seg(2, {}, Below, TRUE, <<50>>)>>,
            Px(StartSize))

EdgeStart == Edge(108)

\* The sessions a run starts from, each with the size of its window.
Starts ==
  {[w |-> Fresh, size |-> StartSize],
   [w |-> LeapStart, size |-> WideSize],
   [w |-> EdgeStart, size |-> StartSize]}
    \cup {[w |-> Siege(tS), size |-> StartSize] : tS \in ShootFrom}

Init ==
  /\ \E s \in Starts :
       /\ gameState = s.w.gs
       /\ score = s.w.score
       /\ health = s.w.health
       /\ nextId = s.w.nextId
       /\ removed = s.w.removed
       /\ shotAt = s.w.shotAt
       /\ canvas = Px(s.size)
  /\ gameOver = FALSE
  /\ wave = 1
  /\ mounted = TRUE
  /\ frame = "held"
  /\ ticks = 0
  /\ inputs = 0
  /\ restarts = 0
  /\ log = EmptyLog

Next ==
  \/ Loop
  \/ handleKeyDown
  \/ handleKeyUp
  \/ handleMouseMove
  \/ handleMouseDown
  \/ handleMouseUp
  \/ handleResize
  \/ restartGame
  \/ Unmount

Spec == Init /\ [][Next]_vars

\* The fresh session with the pointer pressed and never released: the frames
\* of loop, and the pointer moving while it is down.
InitHeld ==
  /\ gameState = [Fresh.gs EXCEPT !.mouse.down = TRUE]
  /\ score = Fresh.score
  /\ health = Fresh.health
  /\ nextId = Fresh.nextId
  /\ removed = Fresh.removed
  /\ shotAt = Fresh.shotAt
  /\ canvas = Px(StartSize)
  /\ gameOver = FALSE
  /\ wave = 1
  /\ mounted = TRUE
  /\ frame = "held"
  /\ ticks = 0
  /\ inputs = 0
  /\ restarts = 0
  /\ log = OpLog("mousedown")

LoopHeld == RunningTick(MaxHeldTicks)

NextHeld ==
  \/ LoopHeld
  \/ handleMouseMove

SpecHeld == InitHeld /\ [][NextHeld]_vars

\* A session n frames long in a window of the given size, without input but
\* for one shot, fired downwards 15 frames before its end.
Quiet(size, n) ==
  RunScript(Mounted(size),
            <<Seg(n - 16, {}, Below, FALSE, <<50>>),
              Seg(1, {}, Below, TRUE, <<50>>),
              Seg(15, {}, Below, FALSE, <<50>>)>>,
            Px(size))

\* Runs without input from frame 99 on: the trauma of the shot dies away,
\* the first enemy is spawned in the run's first tick and walks up to the
\* standing player.
InitApproach ==
  \E size \in QuietSizes :
    /\ gameState = Quiet(size, 99).gs
    /\ score = Quiet(size, 99).score
    /\ health = Quiet(size, 99).health
    /\ nextId = Quiet(size, 99).nextId
    /\ removed = Quiet(size, 99).removed
    /\ shotAt = Quiet(size, 99).shotAt
    /\ canvas = Px(size)
    /\ gameOver = FALSE
    /\ wave = 1
    /\ mounted = TRUE
    /\ frame = "held"
    /\ ticks = 0
    /\ inputs = 0
    /\ restarts = 0
    /\ log = EmptyLog

LoopApproach == RunningTick(MaxApproachTicks)

SpecApproach == InitApproach /\ [][LoopApproach]_vars

\* The sessions the runs of the trigger start from: the fresh one, and the
\* siege that leaves the player with 1 health, the pointer down and the
\* cooldown at 1.
TriggerStarts == {Fresh, Siege(362)}

\* Runs in which the pointer's button goes down and up between the frames,
\* the player may die (the frames go on in GameOver) and the game may be
\* restarted.
InitTrigger ==
  /\ \E w \in TriggerStarts :
       /\ gameState = w.gs
       /\ score = w.score
       /\ health = w.health
       /\ nextId = w.nextId
       /\ removed = w.removed
       /\ shotAt = w.shotAt
  /\ canvas = Px(StartSize)
  /\ gameOver = FALSE
  /\ wave = 1
  /\ mounted = TRUE
  /\ frame = "held"
  /\ ticks = 0
  /\ inputs = 0
  /\ restarts = 0
  /\ log = EmptyLog

LoopTrigger == RunningTick(MaxTriggerTicks)

PointerDown ==
  InputWithin(MaxPointerEvents, "mousedown", [gameState EXCEPT !.mouse.down = TRUE])

PointerUp ==
  InputWithin(MaxPointerEvents, "mouseup", [gameState EXCEPT !.mouse.down = FALSE])

NextTrigger ==
  \/ LoopTrigger
  \/ LoopGameOver
  \/ PointerDown
  \/ PointerUp
  \/ restartGame

SpecTrigger == InitTrigger /\ [][NextTrigger]_vars

\* The score as kills raise it, by 50 or by 10 at a time, from the fresh
\* session on (for the spawn interval, which reads nothing but the score).
KillScored ==
  \E reward \in {50, 10} :
    /\ gameState.score + reward <= MaxScore
    /\ gameState' = [gameState EXCEPT !.score = @ + reward]
    /\ score' = gameState.score + reward
    /\ removed' = IF reward = 50 THEN [removed EXCEPT !.tank = @ + 1]
                                 ELSE [removed EXCEPT !.fast = @ + 1]
    /\ log' = OpLog("kill")
    /\ UNCHANGED <<health, gameOver, wave, canvas, mounted, frame, nextId, ticks,
                   inputs, restarts, shotAt>>

InitScored ==
  /\ gameState = Fresh.gs
  /\ score = Fresh.score
  /\ health = Fresh.health
  /\ nextId = Fresh.nextId
  /\ removed = Fresh.removed
  /\ shotAt = Fresh.shotAt
  /\ canvas = Px(StartSize)
  /\ gameOver = FALSE
  /\ wave = 1
  /\ mounted = TRUE
  /\ frame = "held"
  /\ ticks = 0
  /\ inputs = 0
  /\ restarts = 0
  /\ log = EmptyLog

SpecScored == InitScored /\ [][KillScored]_vars

\* ------------------------------------------------------------- properties
\* The last step was a running tick of loop.
TickDone == log.op = "loop" /\ log.running

\* The last step was an input or a resize event.
InputDone ==
  log.op \in {"keydown", "keyup", "mousemove", "mousedown", "mouseup", "resize"}

\* The ids of the objects of a collection.
Ids(seq) == {seq[k].id : k \in DOMAIN seq}

\* C1: in every reachable state the player's current health is at least 0
\* and at most maxHealth.
C1_HealthInRange ==
  /\ 0 <= gameState.player.currHealth
  /\ gameState.player.currHealth <= gameState.player.maxHealth

\* C2: whenever the player's health is <= 0 the running flag is false (so it
\* is false at the end of the tick that brought the health there), and a
\* step that is not restartGame never takes the running flag from false to
\* true.
C2_StoppedUntilRestart ==
  /\ [](gameState.player.currHealth <= 0 => ~gameState.isRunning)
  /\ [][(~gameState.isRunning /\ log'.op # "restart") => ~gameState'.isRunning]_vars

\* C2, its case: the game has stopped with the health at or below 0 and an
\* input event has been handled since.
C2_Witness ==
  /\ InputDone
  /\ gameState.player.currHealth <= 0
  /\ ~gameState.isRunning

\* C3: right after restartGame the simulation state has its initial values
\* (player position, velocity, health, cooldown, recoil; entities;
\* particles; score; spawn timer; tick counter; camera trauma) and the
\* running flag is true.
C3_RestartResetsAll ==
  log.op = "restart" =>
    /\ gameState.player.pos = Vec(RDiv(canvas.x, 2), RDiv(canvas.y, 2))
    /\ gameState.player.vel = InitialGameState.player.vel
    /\ gameState.player.currHealth = InitialGameState.player.currHealth
    /\ gameState.player.cooldown = InitialGameState.player.cooldown
    /\ gameState.player.recoil = InitialGameState.player.recoil
    /\ gameState.entities = InitialGameState.entities
    /\ gameState.particles = InitialGameState.particles
    /\ gameState.score = InitialGameState.score
    /\ gameState.waveTimer = InitialGameState.waveTimer
    /\ gameState.frameCount = InitialGameState.frameCount
    /\ gameState.camera.shake = InitialGameState.camera.shake
    /\ gameState.isRunning

\* The ids a tick has marked for removal: bullets out of bounds, bullets that
\* hit, enemies killed, particles expired.
MarkedIds ==
  log.oob \cup {log.hits[k].bullet : k \in DOMAIN log.hits}
          \cup {log.kills[k].enemy : k \in DOMAIN log.kills}
          \cup log.expired

\* After a tick nothing it marked is left, and nothing left is marked.
Swept ==
  /\ MarkedIds \cap (Ids(gameState.entities) \cup Ids(gameState.particles)) = {}
  /\ \A k \in DOMAIN gameState.entities : ~gameState.entities[k].markedForDeletion
  /\ \A k \in DOMAIN gameState.particles : ~gameState.particles[k].markedForDeletion

\* The objects of old that are still in new stand in the same order there.
OrderKept(old, new) ==
  \A a, b \in DOMAIN old :
    a < b =>
      \A p, q \in DOMAIN new :
        (new[p].id = old[a].id /\ new[q].id = old[b].id) => p < q

\* C4: after every running tick, the tick of the player's death included,
\* every entity and particle the tick marked for removal is absent, and the
\* entities that remain keep their relative order.
C4_MarkedAreSwept ==
  /\ [](TickDone => Swept)
  /\ [][TickDone' => OrderKept(gameState.entities, gameState'.entities)]_vars

\* C4, its case: the tick in which the player died also killed an enemy and
\* saw particles expire, and two entities remain.
C4_Witness ==
  /\ TickDone
  /\ log.died
  /\ log.kills # <<>>
  /\ log.expired # {}
  /\ Len(gameState.entities) >= 2

\* C5: no step other than restartGame lowers the score (the one the tick
\* keeps, and the one the HUD shows), and restartGame sets both to 0.
C5_ScoreMonotone ==
  [][IF log'.op = "restart"
     THEN gameState'.score = 0 /\ score' = 0
     ELSE gameState'.score >= gameState.score /\ score' >= score]_vars

\* C5, its case: a session that has scored is over, so that restartGame can
\* be invoked on a positive score.
C5_Witness ==
  /\ gameOver
  /\ gameState.score > 0
  /\ score > 0

\* The number of times a tick's log shows the enemy of this id damaged.
HitsOn(id, l) == Cardinality({k \in DOMAIN l.hits : l.hits[k].enemy = id})

\* An enemy whose health the tick with log l took from positive to <= 0.
Killed(e, l) ==
  /\ IsZombie(e.type)
  /\ e.life > 0
  /\ e.life - HitsOn(e.id, l) * 25 * SCALE <= 0

\* The rewards of the enemies killed: 50 for a tank, 10 for a fast enemy.
RECURSIVE Owed(_, _)
Owed(ents, l) ==
  IF ents = <<>> THEN 0
  ELSE (IF Killed(Head(ents), l)
        THEN (IF Head(ents).type = "ZOMBIE_TANK" THEN 50 ELSE 10)
        ELSE 0) + Owed(Tail(ents), l)

\* The number of particles with id from id0 on, of a colour and a maxLife.
Burst(parts, id0, color, maxLife) ==
  Cardinality({k \in DOMAIN parts : /\ parts[k].id >= id0
                                     /\ parts[k].color = color
                                     /\ parts[k].maxLife = maxLife})

\* C6: in every running tick, each enemy whose health goes from positive to
\* <= 0 is gone after the tick and is rewarded exactly once (one kill, and
\* the score, in gameState and in the HUD, grows by exactly 50 per tank and
\* 10 per fast enemy killed), however many projectiles overlap it; each
\* kill leaves 15 new particles of the first blood colour and 10 of the
\* second.
C6_KillRewardedOnce ==
  [][TickDone' =>
       LET old == gameState.entities
           dead == {k \in DOMAIN old : Killed(old[k], log')}
       IN /\ \A k \in dead :
               /\ old[k].id \notin Ids(gameState'.entities)
               /\ Cardinality({n \in DOMAIN log'.kills :
                                 log'.kills[n].enemy = old[k].id}) = 1
          /\ Len(log'.kills) = Cardinality(dead)
          /\ gameState'.score - gameState.score = Owed(old, log')
          /\ score' - score = Owed(old, log')
          /\ Burst(gameState'.particles, nextId, BLOOD_COLOR_1, 70 * SCALE)
               = 15 * Cardinality(dead)
          /\ Burst(gameState'.particles, nextId, BLOOD_COLOR_2, 60 * SCALE)
               = 10 * Cardinality(dead)]_vars

\* C6, its case: an enemy was killed while a second, live projectile
\* overlapped it.
C6_Witness ==
  /\ TickDone
  /\ \E k \in DOMAIN log.kills : log.kills[k].bullets # <<>>

\* C7: in every running tick, a projectile that hits damages the first live
\* enemy it overlaps in enumeration order and no other (each enemy that
\* remains has lost 25 per hit on it, so nothing for a hit on another), is
\* named in one hit only, and is gone after the tick, so that it damages one
\* enemy at most in its lifetime.
C7_OneEnemyPerBullet ==
  [][TickDone' =>
       /\ \A k \in DOMAIN log'.hits :
            /\ log'.hits[k].overlapping # <<>>
            /\ log'.hits[k].enemy = Head(log'.hits[k].overlapping)
            /\ log'.hits[k].bullet \notin Ids(gameState'.entities)
            /\ \A n \in DOMAIN log'.hits :
                 log'.hits[n].bullet = log'.hits[k].bullet => n = k
       /\ \A a \in DOMAIN gameState.entities :
            \A b \in DOMAIN gameState'.entities :
              (IsZombie(gameState.entities[a].type)
                 /\ gameState'.entities[b].id = gameState.entities[a].id)
              => gameState'.entities[b].life
                   = gameState.entities[a].life
                       - HitsOn(gameState.entities[a].id, log') * 25 * SCALE]_vars

\* C7, its case: a projectile hit while it overlapped two live enemies.
C7_Witness ==
  /\ TickDone
  /\ \E k \in DOMAIN log.hits : Len(log.hits[k].overlapping) >= 2

\* C8: with the pointer held from the first tick on and the cooldown at 0
\* before it, a tick spawns one projectile if it is the 1st, 9th, 17th, ...
\* and none otherwise.
C8_OneShotPerInterval ==
  TickDone =>
    /\ log.fired = (IF (gameState.frameCount - 1) % FIRERATE = 0 THEN 1 ELSE 0)
    /\ Len(log.muzzle) = log.fired

\* C8, its case: the third shot, on the 17th tick.
C8_Witness ==
  /\ TickDone
  /\ gameState.frameCount = 2 * FIRERATE + 1
  /\ log.fired = 1

\* A position outside [0, width] x [0, height].
Outside(pos, cv) == pos.x < 0 \/ pos.x > cv.x \/ pos.y < 0 \/ pos.y > cv.y

\* C9: in every running tick, a projectile that is still there afterwards
\* has advanced by exactly its velocity and kept it (one fired in the tick
\* has advanced so from the muzzle); one whose new position is outside the
\* canvas is marked, hits nothing in that tick and is gone after it.
C9_BulletFlight ==
  [][TickDone' =>
       /\ \A k \in DOMAIN gameState.entities :
            LET b == gameState.entities[k]
                to == vecAdd(b.pos, b.vel)
            IN b.type = "BULLET" =>
                 /\ \A n \in DOMAIN gameState'.entities :
                      gameState'.entities[n].id = b.id =>
                        /\ gameState'.entities[n].pos = to
                        /\ gameState'.entities[n].vel = b.vel
                 /\ Outside(to, canvas) =>
                      /\ b.id \in log'.oob
                      /\ b.id \notin Ids(gameState'.entities)
                      /\ \A n \in DOMAIN log'.hits : log'.hits[n].bullet # b.id
       /\ \A m \in DOMAIN log'.muzzle :
            \A n \in DOMAIN gameState'.entities :
              gameState'.entities[n].id = log'.muzzle[m].id =>
                gameState'.entities[n].pos
                  = vecAdd(log'.muzzle[m].pos, gameState'.entities[n].vel)]_vars

\* C9, its case: a projectile went out of bounds while it overlapped a live
\* enemy.
C9_Witness ==
  /\ TickDone
  /\ \E k \in DOMAIN log.skipped :
       /\ log.skipped[k].bullet \in log.oob
       /\ log.skipped[k].overlapping # <<>>

\* C10: every frame of loop performs the render pass, a frame that starts
\* with the running flag false included.
C10_EveryFrameRenders == log.op = "loop" => log.rendered

\* C11: the spawn interval is at least 20 and at most 100 at every score,
\* and a step that raises the score never raises the interval.
C11_SpawnRateBounded ==
  /\ [](20 <= SpawnRate(gameState.score) /\ SpawnRate(gameState.score) <= 100)
  /\ [][gameState'.score >= gameState.score
         => SpawnRate(gameState'.score) <= SpawnRate(gameState.score)]_vars

\* C11, its case: a score at which 100 - 5 * floor(score / 500) is below 20.
C11_Witness ==
  /\ gameState.score >= 8500
  /\ SpawnRate(gameState.score) = 20

SoleFastEnemy(gs) ==
  /\ Len(gs.entities) = 1
  /\ gs.entities[1].type = "ZOMBIE_FAST"

Stationary(gs) == gs.keys = {} /\ gs.player.vel = ZeroVec

EnemyDistance(gs) == vecLen(vecSub(gs.entities[1].pos, gs.player.pos))

\* C12: in a tick that a standing player and one fast enemy (and no other
\* entity) go through, the player stays where they are; without contact the
\* enemy ends the tick strictly nearer to the player and the health is
\* unchanged; with contact the health drops by exactly 1 and the trauma ends
\* the tick higher than it began.
C12_SoleEnemyApproach ==
  [][(/\ log'.op = "loop" /\ log'.running
      /\ SoleFastEnemy(gameState) /\ Stationary(gameState)
      /\ SoleFastEnemy(gameState'))
     => /\ gameState'.player.pos = gameState.player.pos
        /\ IF log'.contacts = <<>>
           THEN /\ EnemyDistance(gameState') < EnemyDistance(gameState)
                /\ gameState'.player.currHealth = gameState.player.currHealth
           ELSE /\ EnemyDistance(gameState) >= gameState.entities[1].radius + 15 * SCALE
                /\ gameState'.player.currHealth = gameState.player.currHealth - 1
                /\ health' = health - 1
                /\ gameState'.camera.shake > gameState.camera.shake]_vars

\* C12, its case: the first contact of the sole fast enemy with the standing
\* player, after an approach of more than 50 ticks.
C12_Witness ==
  /\ TickDone
  /\ SoleFastEnemy(gameState) /\ Stationary(gameState)
  /\ log.contacts # <<>>
  /\ gameState.player.currHealth = 99
  /\ ticks > 50

InBounds(pos, cv) ==
  /\ 20 * SCALE <= pos.x /\ pos.x <= cv.x - 20 * SCALE
  /\ 20 * SCALE <= pos.y /\ pos.y <= cv.y - 20 * SCALE

\* C13, as stated: at the end of every running tick the player's position
\* lies in [20, width - 20] x [20, height - 20], whatever the viewport size.
C13_PlayerInBounds == TickDone => InBounds(gameState.player.pos, canvas)

\* C13, amended: at the end of every running tick in a viewport at least 40
\* wide and 40 high the player's position lies in
\* [20, width - 20] x [20, height - 20].
C13_PlayerInBoundsOfRoomyViewport ==
  (TickDone /\ canvas.x >= 40 * SCALE /\ canvas.y >= 40 * SCALE)
    => InBounds(gameState.player.pos, canvas)

\* C13, its case: the first tick after the window shrank from 400 wide has
\* put the player, who stood beyond the new right edge, back on the margin.
C13_Witness ==
  /\ TickDone
  /\ canvas.x >= 40 * SCALE
  /\ canvas.x < Px(WideSize).x
  /\ gameState.player.pos.x = canvas.x - 20 * SCALE

\* C14: the camera trauma is within [0, 25] in every state, and at the end
\* of a running tick it is 0 or at least 0.5.
C14_TraumaRange ==
  /\ 0 <= gameState.camera.shake
  /\ gameState.camera.shake <= 25 * SCALE
  /\ TickDone => (gameState.camera.shake = 0 \/ gameState.camera.shake >= SCALE \div 2)

\* C14, its case: a tick that began with trauma left and ended with none.
C14_Witness ==
  /\ TickDone
  /\ log.trauma > 0
  /\ gameState.camera.shake = 0

\* C15: once the effect is cleaned up no frame is pending, and no step
\* changes anything: every step that changes the state (a tick, a game-over
\* frame, an input or resize event, a restart) starts with the effect set up.
C15_TeardownIsFinal ==
  /\ [](~mounted => frame = "none")
  /\ [][mounted]_vars

\* C15, its case: the effect was cleaned up while the game-over frames were
\* rescheduling themselves.
C15_Witness ==
  /\ ~mounted
  /\ ~gameState.isRunning
  /\ gameOver

\* C16: an enemy spawned in a tick ends that tick with zero velocity, at
\* its spawn position.
C16_SpawnedStandsStill ==
  TickDone =>
    \A i \in 1..Len(log.born) : \A j \in 1..Len(gameState.entities) :
      gameState.entities[j].id = log.born[i].id
        => /\ gameState.entities[j].vel = ZeroVec
           /\ gameState.entities[j].pos = log.born[i].pos

\* C17: no enemy's separation in a tick is gathered from another enemy's
\* position after that tick's contact knockback: it is what the positions
\* the enemies had moved to, before any push, give.
C17_SteeringBeforeKnockback ==
  TickDone =>
    \A k \in 1..Len(log.steer) : log.steer[k].separation = log.steer[k].unknocked

\* What the particle code must leave alone: the player's health, the score,
\* the entities and the running flag (and the React copies).
Apart(w) ==
  [currHealth |-> w.gs.player.currHealth, score |-> w.gs.score,
   entities |-> w.gs.entities, isRunning |-> w.gs.isRunning,
   health |-> w.health, setScore |-> w.score]

\* The particle of the collection with the given id.
ParticleOf(parts, id) == parts[CHOOSE k \in DOMAIN parts : parts[k].id = id]

\* C18: in a running tick every particle that was there loses exactly 1 of
\* its lifetime and is removed in that tick when the lifetime has reached 0
\* or less, and a particle made in the tick ends it with at most
\* maxLife - 1 = lifeBase + 29 left (so that it is gone after at most
\* lifeBase + 30 ticks); creating particles, updating them and removing them
\* leaves the player's health, the score, the entities and the running flag
\* as they are.
C18_ParticleLifetime ==
  /\ [][(log'.op = "loop" /\ log'.running) =>
          /\ \A k \in DOMAIN gameState.particles :
                LET p == gameState.particles[k]
                IN IF p.life - SCALE <= 0
                   THEN /\ p.id \notin Ids(gameState'.particles)
                        /\ p.id \in log'.expired
                   ELSE /\ p.id \in Ids(gameState'.particles)
                        /\ ParticleOf(gameState'.particles, p.id).life = p.life - SCALE
          /\ \A k \in DOMAIN gameState'.particles :
                LET p == gameState'.particles[k]
                IN /\ p.life > 0
                   /\ p.id \notin Ids(gameState.particles) => p.life <= p.maxLife - SCALE]_vars
  /\ [](LET w == Work(gameState, health, score, nextId)
             marked == [w EXCEPT !.gs.particles =
                          [k \in DOMAIN @ |-> [@[k] EXCEPT !.markedForDeletion = TRUE]]]
         IN /\ Apart(UpdateParticles(w)) = Apart(w)
            /\ [Apart(Cleanup(marked)) EXCEPT !.entities = <<>>]
                 = [Apart(w) EXCEPT !.entities = <<>>]
            /\ Cleanup(marked).gs.particles = <<>>
            /\ Cleanup(marked).gs.entities = Cleanup(w).gs.entities
            /\ \A tape \in Tapes :
                 Apart(createParticle(w, tape, gameState.player.pos, 3, "#ffffaa",
                                      2 * SCALE, 10 * SCALE)) = Apart(w))

\* C18, its case: a tick in which a shot made particles and older particles
\* ran out of lifetime, others living on.
C18_Witness ==
  /\ TickDone
  /\ log.expired # {}
  /\ log.fired > 0
  /\ gameState.particles # <<>>

\* The ids of the enemies of a collection.
EnemyIds(ents) == {ents[k].id : k \in {n \in DOMAIN ents : IsZombie(ents[n].type)}}

\* C19: in every state the score is 10 for each fast enemy and 50 for each
\* tank taken out of the entity collection since the last restart; an enemy
\* leaves the collection only in a running tick in which a projectile
\* killed it, or by a restart, which empties the collection.
C19_ScoreCountsKills ==
  /\ [](/\ gameState.score = 10 * removed.fast + 50 * removed.tank
        /\ score = gameState.score)
  /\ [][LET gone == EnemyIds(gameState.entities) \ EnemyIds(gameState'.entities)
        IN gone # {} =>
             \/ /\ log'.op = "loop" /\ log'.running
                /\ gone = {log'.kills[k].enemy : k \in DOMAIN log'.kills}
                /\ \A k \in DOMAIN log'.kills :
                     \E h \in DOMAIN log'.hits : log'.hits[h].enemy = log'.kills[k].enemy
             \/ /\ log'.op = "restart"
                /\ gameState'.entities = <<>>]_vars

\* C19, its case: the tick in which a projectile killed a tank, which the
\* cleanup took out of the collection, has ended with the score at 50.
C19_Witness ==
  /\ TickDone
  /\ log.kills # <<>>
  /\ removed = [fast |-> 0, tank |-> 1]
  /\ gameState.score = 50

\* gameState.current without the input snapshot (held keys, pointer).
Simulation(gs) == [gs EXCEPT !.keys = {}, !.mouse = [x |-> 0, y |-> 0, down |-> FALSE]]

\* C20: a frame of loop that starts with isRunning false leaves
\* gameState.current as it is; while isRunning is false, and short of a
\* restart, no step changes the player, the entities, the particles, the
\* score, the spawn timer, the tick counter or the camera trauma, and the
\* held keys and the pointer change through input events only.
C20_GameOverFreezes ==
  [][(~gameState.isRunning /\ log'.op # "restart") =>
       /\ Simulation(gameState') = Simulation(gameState)
       /\ health' = health
       /\ score' = score
       /\ log'.op = "loop" => (gameState' = gameState /\ ~log'.running)
       /\ gameState' # gameState =>
            log'.op \in {"keydown", "keyup", "mousemove", "mousedown", "mouseup"}]_vars

\* C20, its case: a frame of loop that started after the player's death, the
\* state still holding enemies and particles.
C20_Witness ==
  /\ log.op = "loop"
  /\ ~log.running
  /\ ~gameState.isRunning
  /\ gameOver
  /\ gameState.entities # <<>>
  /\ gameState.particles # <<>>

\* The ids of the bullets of a collection.
BulletIds(ents) == {ents[k].id : k \in {n \in DOMAIN ents : ents[n].type = "BULLET"}}

\* C21: the cooldown is within [0, FIRERATE] in every state; a tick pushes
\* at most one projectile, and when it pushes one, the tick of the previous
\* push lies at least FIRERATE running ticks back, whatever pointer events,
\* game-over frames and restarts lie between them; no other step pushes one.
C21_FireRate ==
  /\ [](/\ 0 <= gameState.player.cooldown
        /\ gameState.player.cooldown <= FIRERATE)
  /\ [][/\ Cardinality(BulletIds(gameState'.entities) \ BulletIds(gameState.entities)) <= 1
        /\ IF log'.op = "loop" /\ log'.running
           THEN /\ log'.fired <= 1
                /\ Len(log'.muzzle) = log'.fired
                /\ log'.fired = 1 =>
                     /\ shotAt' = gameState'.frameCount
                     /\ shotAt # 0 => gameState'.frameCount - shotAt >= FIRERATE
                /\ log'.fired = 0 => shotAt' = shotAt
           ELSE /\ BulletIds(gameState'.entities) \subseteq BulletIds(gameState.entities)
                /\ shotAt' = shotAt]_vars

\* C21, its case: the first projectile after a restart, FIRERATE running
\* ticks after the one pushed in the tick of the player's death.
C21_Witness ==
  /\ TickDone
  /\ restarts > 0
  /\ log.fired = 1
  /\ log.gap = FIRERATE

====
